---------------------------- MODULE Spec2Model ----------------------------
(***************************************************************************)
(* Model of b2/backend.go: the backoff / retry / reauthorization layer     *)
(* wrapped around the raw B2 client (root session, bucket, upload URL and  *)
(* file handles).                                                          *)
(*                                                                         *)
(* Durations are time.Duration values counted in milliseconds.            *)
(* Errors are the values the raw client returns, "nil" for no error and   *)
(* "ctx" for ctx.Err().                                                    *)
(***************************************************************************)
EXTENDS Integers, Sequences, FiniteSets, TLC

(* ------------------------------ bounds -------------------------------- *)

\* How many raw calls of one resilient operation the raw client may fail.
MaxFails == 2
\* rand.Float64() is drawn from {0/DrawRes, ..., (DrawRes-1)/DrawRes}.
DrawRes == 2
\* How many raw calls of one operation fail when every error is transient.
MaxRetries == 7
\* How many raw calls of one operation fail when callers run concurrently.
ConcFails == 1
\* How many raw calls of one operation fail in the specification of the nested
\* loops.
NestFails == 3
\* Durations handed to getBackoff in the specification of the pure function.
MaxDur == 16400
MinDur == 0 - 40

(* ------------------------- program constants -------------------------- *)

\* 500 * time.Millisecond
InitialBackoff == 500
\* 15 * time.Second
Ceiling == 15000
\* f /= 50
JitterDiv == 50

(* --------------------------- the environment -------------------------- *)

Procs == {"p1", "p2"}
Roots == {"r1", "r2"}
\* The (account, key) pairs callers authorize with.
Pairs == {<<"a1", "k1">>, <<"a2", "k2">>}

Nil == "nil"
CtxErr == "ctx"
\* The errors a raw call can return.
Errs == {"perm", "trans", "retryAfter", "retryNow", "auth", "authTrans"}

Draws == 0 .. (DrawRes - 1)

VARIABLES
    client,     \* the Session (*beRoot) the callers were given
    account,    \* beRoot.account of every session
    key,        \* beRoot.key of every session
    nilReauth,  \* whether the raw client's reauth() answers true for a nil error
                \* (the B2 client's does not)
    pc,         \* where each caller stands in the code
    call,       \* the resilient operation a caller is in: name, receiver, session
    stack,      \* the withBackoff loops a caller is in, innermost last, each
                \* with its backoff and the (final, err) its f returned
    loc,        \* the locals of the operation: withReauth's err, the result variables
    cancelled,  \* whether the caller's ctx is done
    ret,        \* what the operation returned to the caller
    held,       \* the handle the caller keeps for its next calls
    gh,         \* counts of what the operation has done so far
    bd,         \* a duration handed to getBackoff
    bnext       \* what getBackoff returned for it: <<>> until it has, then <<next>>

vars == <<client, account, key, nilReauth, pc, call, stack, loc, cancelled, ret, held,
          gh, bd, bnext>>

(* ------------------------------ classifier ---------------------------- *)

\* b2i.transient(err)
transient(e) == e \in {"trans", "retryAfter", "retryNow", "authTrans"}

\* b2i.reauth(err)
reauth(e) == IF e = Nil THEN nilReauth ELSE e \in {"auth", "authTrans"}

\* b2i.backoff(err): <<bo, ok>>
backoff(e) ==
    CASE e = "retryAfter" -> <<2000, TRUE>>
      [] e = "retryNow"   -> <<0, TRUE>>
      [] OTHER            -> <<0, FALSE>>

(* ------------------------------- backoff ------------------------------ *)

\* time.Duration(f): a float64 is truncated toward zero.
Trunc(n, m) == IF n >= 0 THEN n \div m ELSE 0 - ((0 - n) \div m)

\* A jitter that is symmetric around zero: f = d/50; f = f * (k/DrawRes - 1/2).
jitterSymmetric(d, k) == Trunc(d * (2 * k - DrawRes), 2 * JitterDiv * DrawRes)

\* jitter(d) with rand.Float64() = k / DrawRes:
\* f = d/50; f += f * (k/DrawRes - 1/2), that is d * (DrawRes + 2k) / (100 * DrawRes).
jitter(d, k) == Trunc(d * (DrawRes + 2 * k), 2 * JitterDiv * DrawRes)

\* A backoff that doubles whatever the duration.
getBackoffDoubling(d, k) == d * 2 + jitter(d * 2, k)

getBackoff(d, k) ==
    IF d > Ceiling THEN d + jitter(d, k) ELSE d * 2 + jitter(d * 2, k)

(* ------------------------------- handles ------------------------------ *)

NoHandle == [kind |-> "none"]
\* *beRoot
beRootH(r) == [kind |-> "root", ri |-> r]
\* &beBucket{b2bucket: bucket, ri: r}
beBucket(bucket, r) == [kind |-> "bucket", b2bucket |-> bucket, ri |-> r]
\* An upload target that references another Session than its bucket does.
beURLOwnRoot(u, b) ==
    [kind |-> "url", b2url |-> u, ri |-> CHOOSE r \in Roots : r # b.ri]
\* &beURL{b2url: u, ri: b.ri}
beURL(u, b) == [kind |-> "url", b2url |-> u, ri |-> b.ri]
\* &beFile{b2file: f, url: b, ri: b.ri}
beFile(f, b) == [kind |-> "file", b2file |-> f, url |-> b, ri |-> b.ri]

\* What the raw client hands out: a raw bucket of a raw root, a raw upload URL
\* of a raw bucket, a raw file of a raw upload URL.
rawBucket(r, i) == [root |-> r, id |-> i]
rawURL(bucket) == [bucket |-> bucket]
rawFile(u) == [url |-> u]

\* The raw bucket lists a raw root can answer listBuckets with.
RawLists(r) ==
    {<<>>, <<rawBucket(r, "x")>>, <<rawBucket(r, "x"), rawBucket(r, "y")>>}

\* for _, b := range bs { buckets = append(buckets, &beBucket{b2bucket: b, ri: r}) }
appendBuckets(buckets, bs, r) ==
    buckets \o [i \in 1 .. Len(bs) |-> beBucket(bs[i], r)]

(* ------------------------------- state -------------------------------- *)

NoLoc == [err |-> Nil, h |-> NoHandle, buckets |-> <<>>, account |-> ""]
NoCall == [op |-> "none", recv |-> NoHandle, ri |-> "r1", args |-> <<"", "">>,
           old |-> <<"", "">>]
NoRet == [err |-> Nil, h |-> NoHandle, buckets |-> <<>>]
\* What an operation has done so far: its raw calls and those that failed, the
\* reauthorizations it started, the first and the latest raw result, whether
\* every error so far was plainly transient, the waits it entered (loop depth
\* and duration, the error waited on and the running backoff before), whether
\* its ctx was cancelled while it was blocked in a wait, the results of its raw
\* operation that were reauth-worthy, the raw value of the raw call that
\* succeeded, the waits whose timer case was taken, and the calls and waits it
\* had made when its ctx was cancelled.
NoGh == [rawCalls |-> 0, authCalls |-> 0, opFails |-> 0, authFails |-> 0,
         reauths |-> 0, firstErr |-> "none", lastRaw |-> "none", plain |-> TRUE,
         waits |-> <<>>, wokenByCtx |-> FALSE, reauthOp |-> 0, got |-> NoHandle,
         waited |-> 0, atCancel |-> [rawCalls |-> 0, authCalls |-> 0, waited |-> 0]]

\* A Session that was never authorized, callers that hold no handle, and a
\* classifier whose reauth(nil) is nr.
InitWith(nr) ==
    /\ client \in Roots
    /\ account = [r \in Roots |-> ""]
    /\ key = [r \in Roots |-> ""]
    /\ nilReauth = nr
    /\ pc = [p \in Procs |-> "idle"]
    /\ call = [p \in Procs |-> NoCall]
    /\ stack = [p \in Procs |-> <<>>]
    /\ loc = [p \in Procs |-> NoLoc]
    /\ cancelled = [p \in Procs |-> FALSE]
    /\ ret = [p \in Procs |-> NoRet]
    /\ held = [p \in Procs |-> NoHandle]
    /\ gh = [p \in Procs |-> NoGh]

InitSession == InitWith(FALSE)

Init ==
    /\ InitSession
    /\ bd = 0
    /\ bnext = <<>>

Top(p) == stack[p][Len(stack[p])]

\* backoff := 500 * time.Millisecond: a fresh withBackoff loop around f
Frame(fn, a, k) ==
    [fn |-> fn, backoff |-> InitialBackoff, account |-> a, key |-> k,
     final |-> FALSE, err |-> Nil]

\* The loops st, the innermost having got (final, err) from its f.
FReturned(st, final, err) ==
    [st EXCEPT ![Len(st)].final = final, ![Len(st)].err = err]

\* Where the body f of a withBackoff loop starts: the raw authorizeAccount call
\* of authorizeAccount, or withReauth's first call of g.
FStart(fn) == IF fn = "auth" THEN "rawAuth" ELSE "g1"

(* --------------------- the handlers, up to withBackoff ----------------- *)

\* A handler called with a ctx that is already done or not, on receiver recv.
Enter(p, op, recv, fr, c) ==
    /\ pc[p] = "idle"
    /\ call' = [call EXCEPT ![p] = [op |-> op, recv |-> recv, ri |-> recv.ri,
                                    args |-> <<fr.account, fr.key>>,
                                    old |-> <<account[recv.ri], key[recv.ri]>>]]
    /\ stack' = [stack EXCEPT ![p] = <<fr>>]
    /\ pc' = [pc EXCEPT ![p] = FStart(fr.fn)]
    /\ cancelled' = [cancelled EXCEPT ![p] = c]
    /\ UNCHANGED <<client, account, key, nilReauth, loc, ret, held, gh, bd, bnext>>

\* The handlers, called with a ctx whose state (done or not) is one of Ctxs.
authorizeAccountC(p, Ctxs) ==
    \E ak \in Pairs, c \in Ctxs :
        Enter(p, "authorizeAccount", beRootH(client), Frame("auth", ak[1], ak[2]), c)

authorizeAccount(p) == authorizeAccountC(p, BOOLEAN)

createBucketC(p, Ctxs) ==
    \E c \in Ctxs :
        Enter(p, "createBucket", beRootH(client), Frame("op", "", ""), c)

createBucket(p) == createBucketC(p, BOOLEAN)

listBuckets(p) ==
    \E c \in BOOLEAN :
        Enter(p, "listBuckets", beRootH(client), Frame("op", "", ""), c)

deleteBucket(p) ==
    \E c \in BOOLEAN :
        /\ held[p].kind = "bucket"
        /\ Enter(p, "deleteBucket", held[p], Frame("op", "", ""), c)

getUploadURL(p) ==
    \E c \in BOOLEAN :
        /\ held[p].kind = "bucket"
        /\ Enter(p, "getUploadURL", held[p], Frame("op", "", ""), c)

uploadFile(p) ==
    \E c \in BOOLEAN :
        /\ held[p].kind = "url"
        /\ Enter(p, "uploadFile", held[p], Frame("op", "", ""), c)

deleteFileVersion(p) ==
    \E c \in BOOLEAN :
        /\ held[p].kind = "file"
        /\ Enter(p, "deleteFileVersion", held[p], Frame("op", "", ""), c)

(* ------------------------------ withBackoff --------------------------- *)

\* A handler returning its result variable whatever withBackoff returned.
ResultWithError(op, e, l) ==
    [err |-> e,
     h |-> IF op \in {"createBucket", "getUploadURL", "uploadFile"}
           THEN l.h ELSE NoHandle,
     buckets |-> IF op = "listBuckets" THEN l.buckets ELSE <<>>]

\* What a handler hands its caller once withBackoff has returned e:
\* if err != nil { return nil, err }; return bi, nil
Result(op, e, l) ==
    IF e # Nil THEN [err |-> e, h |-> NoHandle, buckets |-> <<>>]
    ELSE [err |-> Nil,
          h |-> IF op \in {"createBucket", "getUploadURL", "uploadFile"}
                THEN l.h ELSE NoHandle,
          buckets |-> IF op = "listBuckets" THEN l.buckets ELSE <<>>]

\* f of a handle operation returning after withReauth returned e:
\* if err := withReauth(ctx, ri, g); err != nil { return false, err }; return true, nil
FReturn(p, st, e) ==
    /\ stack' = [stack EXCEPT ![p] = FReturned(st, e = Nil, e)]
    /\ pc' = [pc EXCEPT ![p] = "check"]

\* withReauth calling f again whatever reauthorizeAccount returned.
AfterReauthAlways(e) == "again"

\* withReauth after reauthorizeAccount returned e:
\* if err := ri.reauthorizeAccount(ctx); err != nil { return err }; err = f()
AfterReauth(e) == IF e # Nil THEN "return" ELSE "again"

\* withReauth returning the error that made it reauthorize.
ReauthErrorOuter(err, rerr) == err

\* The error withReauth returns when reauthorizeAccount failed with rerr after
\* f failed with err: if err := ri.reauthorizeAccount(ctx); err != nil { return err }
ReauthError(err, rerr) == rerr

\* withBackoff returns e: to the handler when the loop is the handler's own, to
\* withReauth (err := ri.reauthorizeAccount(ctx)) when it is a reauthorization's.
Returned(p, e) ==
    IF Len(stack[p]) = 1
    THEN /\ pc' = [pc EXCEPT ![p] = "done"]
         /\ ret' = [ret EXCEPT ![p] = Result(call[p].op, e, loc[p])]
         /\ stack' = [stack EXCEPT ![p] = <<>>]
         /\ loc' = loc
    ELSE LET outer == SubSeq(stack[p], 1, Len(stack[p]) - 1) IN
         /\ ret' = ret
         /\ loc' = loc
         /\ IF AfterReauth(e) = "return"
            THEN FReturn(p, outer, ReauthError(loc[p].err, e))
            ELSE /\ pc' = [pc EXCEPT ![p] = "g2"]
                 /\ stack' = [stack EXCEPT ![p] = outer]

\* A wait computed without asking the classifier for an override.
NextBackoffNoOverride(b, e, k) == getBackoff(b, k)

\* The wait of the next select: the classifier's override, or getBackoff of
\* the running backoff.
NextBackoff(b, e, k) == IF backoff(e)[2] THEN backoff(e)[1] ELSE getBackoff(b, k)

\* withBackoff without its transient test: every error that is not final is
\* retried.
RetryNotFinal(p) == ~Top(p).final

\* withBackoff with a ceiling on the number of retries.
RetryCapped(p) ==
    ~Top(p).final /\ transient(Top(p).err) /\ Len(gh[p].waits) + 1 < MaxFails

\* withBackoff going to the select after any error once the ctx is done.
RetryOrCancelled(p) == ~Top(p).final /\ (transient(Top(p).err) \/ cancelled[p])

\* Whether withBackoff goes round again after f returned (final, err):
\* if final { return err }; if !ri.transient(err) { return err }
Retry(p) == ~Top(p).final /\ transient(Top(p).err)

\* A wait that becomes the running backoff of every loop the caller is in.
WaitingAll(st, b) == [i \in 1 .. Len(st) |-> [st[i] EXCEPT !.backoff = b]]

\* backoff = bo, or backoff = getBackoff(backoff): the loops st, the innermost
\* with its running backoff set to the wait b.
Waiting(st, b) == [st EXCEPT ![Len(st)].backoff = b]

\* withBackoff after f returned (final, err): it returns err, or computes the
\* wait and enters the select.
Check(p) ==
    /\ pc[p] = "check"
    /\ IF ~Retry(p)
       THEN /\ Returned(p, Top(p).err)
            /\ gh' = gh
       ELSE \E k \in Draws :
            LET b == NextBackoff(Top(p).backoff, Top(p).err, k) IN
            /\ stack' = [stack EXCEPT ![p] = Waiting(@, b)]
            /\ pc' = [pc EXCEPT ![p] = "select"]
            /\ gh' = [gh EXCEPT ![p].waits =
                          Append(@, [depth |-> Len(stack[p]), d |-> b,
                                     e |-> Top(p).err, from |-> Top(p).backoff])]
            /\ UNCHANGED <<loc, ret>>
    /\ UNCHANGED <<client, account, key, nilReauth, call, cancelled, held, bd, bnext>>

\* A wait that does not look at ctx.Done().
ReadyTimerOnly(p) == IF Top(p).backoff <= 0 THEN {"timer"} ELSE {}

\* The cases of the select that are ready when it is entered: ctx.Done() when
\* the ctx is done, time.After(backoff) when the duration is not positive.
Ready(p) ==
    (IF cancelled[p] THEN {"ctx"} ELSE {}) \cup
    (IF Top(p).backoff <= 0 THEN {"timer"} ELSE {})

\* select { case <-ctx.Done(): ...; case <-time.After(backoff): }: entered.
\* A select with several ready cases takes any of them; with none it blocks.
Select(p) ==
    /\ pc[p] = "select"
    /\ IF Ready(p) = {}
       THEN /\ pc' = [pc EXCEPT ![p] = "blocked"]
            /\ gh' = gh
       ELSE \E c \in Ready(p) :
            /\ pc' = [pc EXCEPT ![p] = IF c = "ctx" THEN "cancelRet"
                                       ELSE FStart(Top(p).fn)]
            /\ gh' = [gh EXCEPT ![p].waited = IF c = "ctx" THEN @ ELSE @ + 1]
    /\ UNCHANGED <<client, account, key, nilReauth, call, stack, loc, cancelled, ret,
                   held, bd, bnext>>

\* case <-time.After(backoff): the timer fires on a blocked select; the loop
\* goes round.
TimerFires(p) ==
    /\ pc[p] = "blocked"
    /\ pc' = [pc EXCEPT ![p] = FStart(Top(p).fn)]
    /\ gh' = [gh EXCEPT ![p].waited = @ + 1]
    /\ UNCHANGED <<client, account, key, nilReauth, call, stack, loc, cancelled, ret,
                   held, bd, bnext>>

\* The caller's ctx is cancelled; a select blocked on it wakes with ctx.Done().
Cancel(p) ==
    /\ pc[p] \notin {"idle", "done"}
    /\ ~cancelled[p]
    /\ cancelled' = [cancelled EXCEPT ![p] = TRUE]
    /\ pc' = [pc EXCEPT ![p] = IF pc[p] = "blocked" THEN "cancelRet" ELSE pc[p]]
    /\ gh' = [gh EXCEPT ![p].wokenByCtx = (pc[p] = "blocked"),
                         ![p].atCancel = [rawCalls |-> gh[p].rawCalls,
                                          authCalls |-> gh[p].authCalls,
                                          waited |-> gh[p].waited]]
    /\ UNCHANGED <<client, account, key, nilReauth, call, stack, loc, ret, held,
                   bd, bnext>>

\* The select's ctx.Done() case returning the error that prompted the wait
\* instead of ctx.Err().
CancelReturnsErr(p) ==
    /\ pc[p] = "cancelRet"
    /\ Returned(p, Top(p).err)
    /\ UNCHANGED <<client, account, key, nilReauth, call, cancelled, held, gh, bd, bnext>>

\* case <-ctx.Done(): return ctx.Err()
CancelReturn(p) ==
    /\ pc[p] = "cancelRet"
    /\ Returned(p, CtxErr)
    /\ UNCHANGED <<client, account, key, nilReauth, call, cancelled, held, gh, bd, bnext>>

(* ------------------------- withReauth and the raw calls ---------------- *)

\* What the raw call of an operation can hand back when it succeeds.
RawValues(op, recv) ==
    CASE op = "createBucket" -> {rawBucket(recv.ri, "x")}
      [] op = "listBuckets"  -> RawLists(recv.ri)
      [] op = "getUploadURL" -> {rawURL(recv.b2bucket)}
      [] op = "uploadFile"   -> {rawFile(recv.b2url)}
      [] OTHER               -> {NoHandle}

\* g after its raw call succeeded: the result variable of the handler is set.
gSuccess(op, recv, l, raw) ==
    CASE op = "createBucket" -> [l EXCEPT !.h = beBucket(raw, recv.ri)]
      [] op = "listBuckets"  ->
             [l EXCEPT !.buckets = appendBuckets(l.buckets, raw, recv.ri)]
      [] op = "getUploadURL" -> [l EXCEPT !.h = beURL(raw, recv)]
      [] op = "uploadFile"   -> [l EXCEPT !.h = beFile(raw, recv)]
      [] OTHER               -> l

\* The raw client may fail a call of an operation while it has failed fewer
\* than max of them.
MayFail(p, max) == gh[p].opFails + gh[p].authFails < max

\* An error that is transient, not reauth-worthy, and has no backoff override.
Plain(e) == transient(e) /\ ~reauth(e) /\ ~backoff(e)[2]

Counted(g, what, e) ==
    [g EXCEPT ![what] = @ + 1,
              ![IF what = "rawCalls" THEN "opFails" ELSE "authFails"] =
                  IF e = Nil THEN @ ELSE @ + 1,
              !.firstErr = IF g.rawCalls + g.authCalls = 0 THEN e ELSE @,
              !.lastRaw = e,
              !.plain = @ /\ (e = Nil \/ Plain(e)),
              !.reauthOp = IF what = "rawCalls" /\ reauth(e) THEN @ + 1 ELSE @]

\* The history g with the value raw of a raw call that returned e: kept when
\* the call succeeded.
Got(g, e, raw) == [g EXCEPT !.got = IF e = Nil THEN raw ELSE @]

\* g(): the raw call of the operation, which returns e; on success the
\* wrapped result is stored. The locals after the call.
g(p, e, raw) ==
    [(IF e = Nil THEN gSuccess(call[p].op, call[p].recv, loc[p], raw) ELSE loc[p])
        EXCEPT !.err = e]

\* withReauth: err := f(), the raw call failing with one of the errors E
\* (at most max times in one operation) or succeeding.
G1E(p, E, max) ==
    /\ pc[p] = "g1"
    /\ \E e \in {Nil} \cup {x \in E : MayFail(p, max)},
          raw \in RawValues(call[p].op, call[p].recv) :
        /\ loc' = [loc EXCEPT ![p] = g(p, e, raw)]
        /\ gh' = [gh EXCEPT ![p] = Got(Counted(gh[p], "rawCalls", e), e, raw)]
    /\ pc' = [pc EXCEPT ![p] = "reauthq"]
    /\ UNCHANGED <<client, account, key, nilReauth, call, stack, cancelled, ret, held,
                   bd, bnext>>

\* withReauth reauthorizing also after a call of f that returned nil.
NeedsReauthOrNil(err) == err = Nil \/ reauth(err)

\* withReauth reauthorizing after any error.
NeedsReauthAnyError(err) == err # Nil

\* withReauth leaving an error that is also transient to the retry loop.
NeedsReauthUnlessTransient(err) == reauth(err) /\ ~transient(err)

\* withReauth: if ri.reauth(err)
NeedsReauth(err) == reauth(err)

\* withReauth: if ri.reauth(err) { ... ri.reauthorizeAccount(ctx) ... }; return err
ReauthCheck(p) ==
    /\ pc[p] = "reauthq"
    /\ IF NeedsReauth(loc[p].err)
       THEN /\ pc' = [pc EXCEPT ![p] = "readAccount"]
            /\ gh' = [gh EXCEPT ![p].reauths = @ + 1]
            /\ stack' = stack
       ELSE /\ FReturn(p, stack[p], loc[p].err)
            /\ gh' = gh
    /\ UNCHANGED <<client, account, key, nilReauth, call, loc, cancelled, ret, held,
                   bd, bnext>>

\* reauthorizeAccount: r.authorizeAccount(ctx, r.account, r.key), the two
\* fields read one after the other.
ReadAccount(p) ==
    /\ pc[p] = "readAccount"
    /\ loc' = [loc EXCEPT ![p].account = account[call[p].ri]]
    /\ pc' = [pc EXCEPT ![p] = "readKey"]
    /\ UNCHANGED <<client, account, key, nilReauth, call, stack, cancelled, ret, held,
                   gh, bd, bnext>>

ReadKey(p) ==
    /\ pc[p] = "readKey"
    /\ stack' = [stack EXCEPT ![p] =
                    Append(@, Frame("auth", loc[p].account, key[call[p].ri]))]
    /\ pc' = [pc EXCEPT ![p] = "rawAuth"]
    /\ UNCHANGED <<client, account, key, nilReauth, call, loc, cancelled, ret, held,
                   gh, bd, bnext>>

G1(p) == G1E(p, Errs, MaxFails)

\* withReauth testing ri.reauth(err) again after its second call of f.
G2EReauthAgain(p, E, max) ==
    /\ pc[p] = "g2"
    /\ \E e \in {Nil} \cup {x \in E : MayFail(p, max)},
          raw \in RawValues(call[p].op, call[p].recv) :
        /\ loc' = [loc EXCEPT ![p] = g(p, e, raw)]
        /\ gh' = [gh EXCEPT ![p] = Got(Counted(gh[p], "rawCalls", e), e, raw)]
    /\ pc' = [pc EXCEPT ![p] = "reauthq"]
    /\ UNCHANGED <<client, account, key, nilReauth, call, stack, cancelled, ret, held,
                   bd, bnext>>

\* withReauth: err = f(), after a reauthorization that succeeded; return err
G2E(p, E, max) ==
    /\ pc[p] = "g2"
    /\ \E e \in {Nil} \cup {x \in E : MayFail(p, max)},
          raw \in RawValues(call[p].op, call[p].recv) :
        /\ loc' = [loc EXCEPT ![p] = g(p, e, raw)]
        /\ FReturn(p, stack[p], e)
        /\ gh' = [gh EXCEPT ![p] = Got(Counted(gh[p], "rawCalls", e), e, raw)]
    /\ UNCHANGED <<client, account, key, nilReauth, call, cancelled, ret, held,
                   bd, bnext>>

\* An f that stores the account and the key also when the raw call failed with
\* an error that will be retried.
AuthorizedOrTransient(e) == e = Nil \/ transient(e)

\* f of authorizeAccount goes on to store the account and the key:
\* if err := r.b2i.authorizeAccount(ctx, account, key); err != nil { return false, err }
Authorized(e) == e = Nil

G2(p) == G2E(p, Errs, MaxFails)

\* f of authorizeAccount: r.b2i.authorizeAccount(ctx, account, key) returns e;
\* if err != nil { return false, err }
RawAuthorizeE(p, E, max) ==
    /\ pc[p] = "rawAuth"
    /\ \E e \in {Nil} \cup {x \in E : MayFail(p, max)} :
        /\ gh' = [gh EXCEPT ![p] = Counted(gh[p], "authCalls", e)]
        /\ IF Authorized(e)
           THEN /\ pc' = [pc EXCEPT ![p] = "writeAccount"]
                /\ stack' = stack
           ELSE /\ pc' = [pc EXCEPT ![p] = "check"]
                /\ stack' = [stack EXCEPT ![p] = FReturned(@, FALSE, e)]
    /\ UNCHANGED <<client, account, key, nilReauth, call, loc, cancelled, ret, held,
                   bd, bnext>>

RawAuthorize(p) == RawAuthorizeE(p, Errs, MaxFails)

\* r.account = account
WriteAccount(p) ==
    /\ pc[p] = "writeAccount"
    /\ account' = [account EXCEPT ![call[p].ri] = Top(p).account]
    /\ pc' = [pc EXCEPT ![p] = "writeKey"]
    /\ UNCHANGED <<client, key, nilReauth, call, stack, loc, cancelled, ret, held, gh,
                   bd, bnext>>

\* r.key = key; return true, nil
WriteKey(p) ==
    /\ pc[p] = "writeKey"
    /\ key' = [key EXCEPT ![call[p].ri] = Top(p).key]
    /\ stack' = [stack EXCEPT ![p] = FReturned(@, TRUE, Nil)]
    /\ pc' = [pc EXCEPT ![p] = "check"]
    /\ UNCHANGED <<client, account, nilReauth, call, loc, cancelled, ret, held, gh,
                   bd, bnext>>

\* The caller has the result; it keeps the handle it was given (of a list, the
\* first) for later calls.
Return(p) ==
    /\ pc[p] = "done"
    /\ held' = [held EXCEPT ![p] =
                   IF ret[p].h # NoHandle THEN ret[p].h
                   ELSE IF ret[p].buckets # <<>> THEN ret[p].buckets[1]
                   ELSE @]
    /\ pc' = [pc EXCEPT ![p] = "idle"]
    /\ call' = [call EXCEPT ![p] = NoCall]
    /\ loc' = [loc EXCEPT ![p] = NoLoc]
    /\ ret' = [ret EXCEPT ![p] = NoRet]
    /\ gh' = [gh EXCEPT ![p] = NoGh]
    /\ cancelled' = [cancelled EXCEPT ![p] = FALSE]
    /\ UNCHANGED <<client, account, key, nilReauth, stack, bd, bnext>>

(* ---------------------------- specifications -------------------------- *)

Step(p) ==
    \/ authorizeAccount(p)
    \/ createBucket(p)
    \/ listBuckets(p)
    \/ deleteBucket(p)
    \/ getUploadURL(p)
    \/ uploadFile(p)
    \/ deleteFileVersion(p)
    \/ G1(p)
    \/ ReauthCheck(p)
    \/ ReadAccount(p)
    \/ ReadKey(p)
    \/ G2(p)
    \/ RawAuthorize(p)
    \/ WriteAccount(p)
    \/ WriteKey(p)
    \/ Check(p)
    \/ Select(p)
    \/ TimerFires(p)
    \/ Cancel(p)
    \/ CancelReturn(p)
    \/ Return(p)

\* One caller: every operation runs to its return before the next is called.
Next == Step("p1")

Spec == Init /\ [][Next]_vars

\* One caller and a raw client whose every error is transient, with neither
\* reauthorization nor backoff override: the retry loop alone, through many
\* rounds.
NextRetry ==
    \/ createBucket("p1")
    \/ G1E("p1", {"trans"}, MaxRetries)
    \/ ReauthCheck("p1")
    \/ Check("p1")
    \/ Select("p1")
    \/ TimerFires("p1")
    \/ CancelReturn("p1")
    \/ Return("p1")

SpecRetry == Init /\ [][NextRetry]_vars

\* The steps of one of several callers that share the Session: authorizeAccount
\* and createBucket, with a raw client whose only error is the reauth-worthy,
\* non-transient one, so that no caller waits and the state of its ctx is
\* never looked at.
StepConc(p) ==
    \/ authorizeAccountC(p, {FALSE})
    \/ createBucketC(p, {FALSE})
    \/ G1E(p, {"auth"}, ConcFails)
    \/ ReauthCheck(p)
    \/ ReadAccount(p)
    \/ ReadKey(p)
    \/ G2E(p, {"auth"}, ConcFails)
    \/ RawAuthorizeE(p, {"auth"}, ConcFails)
    \/ WriteAccount(p)
    \/ WriteKey(p)
    \/ Check(p)
    \/ Return(p)

\* Nothing in the package serialises callers: their steps interleave freely.
NextConc == \E p \in Procs : StepConc(p)

SpecConc == Init /\ [][NextConc]_vars

\* One caller of createBucket whose ctx is never cancelled, and a raw client
\* that fails with a plain transient error, with a transient error that has a
\* backoff override, or with a reauth-worthy error, transient or not: the
\* operation's retry loop and the retry loops of the reauthorizations nested
\* in it.
NestErrs == {"trans", "retryAfter", "auth", "authTrans"}

NextNest ==
    \/ createBucketC("p1", {FALSE})
    \/ G1E("p1", NestErrs, NestFails)
    \/ ReauthCheck("p1")
    \/ ReadAccount("p1")
    \/ ReadKey("p1")
    \/ G2E("p1", NestErrs, NestFails)
    \/ RawAuthorizeE("p1", NestErrs, NestFails)
    \/ WriteAccount("p1")
    \/ WriteKey("p1")
    \/ Check("p1")
    \/ Select("p1")
    \/ TimerFires("p1")
    \/ Return("p1")

SpecNest == Init /\ [][NextNest]_vars

\* One caller of the operations that return a handle, and a classifier that
\* marks the nil error reauth-worthy, so that withReauth reauthorizes after a
\* raw call that succeeded. The raw client fails with a permanent or a plain
\* transient error.
InitNilReauth ==
    /\ InitWith(TRUE)
    /\ bd = 0
    /\ bnext = <<>>

NilReauthErrs == {"perm", "trans"}

NextNilReauth ==
    \/ createBucket("p1")
    \/ getUploadURL("p1")
    \/ uploadFile("p1")
    \/ G1E("p1", NilReauthErrs, MaxFails)
    \/ ReauthCheck("p1")
    \/ ReadAccount("p1")
    \/ ReadKey("p1")
    \/ G2E("p1", NilReauthErrs, MaxFails)
    \/ RawAuthorizeE("p1", NilReauthErrs, MaxFails)
    \/ WriteAccount("p1")
    \/ WriteKey("p1")
    \/ Check("p1")
    \/ Select("p1")
    \/ TimerFires("p1")
    \/ Cancel("p1")
    \/ CancelReturn("p1")
    \/ Return("p1")

SpecNilReauth == InitNilReauth /\ [][NextNilReauth]_vars

\* One caller of createBucket and deleteBucket whose ctx may be cancelled at any
\* moment, and a classifier whose overrides are positive, so that every wait is.
\* The caller's goroutine keeps running and every raw call returns: a step that
\* can be taken is taken.
CancelErrs == Errs \ {"retryNow"}

NextCancel ==
    \/ createBucket("p1")
    \/ deleteBucket("p1")
    \/ G1E("p1", CancelErrs, MaxFails)
    \/ ReauthCheck("p1")
    \/ ReadAccount("p1")
    \/ ReadKey("p1")
    \/ G2E("p1", CancelErrs, MaxFails)
    \/ RawAuthorizeE("p1", CancelErrs, MaxFails)
    \/ WriteAccount("p1")
    \/ WriteKey("p1")
    \/ Check("p1")
    \/ Select("p1")
    \/ TimerFires("p1")
    \/ Cancel("p1")
    \/ CancelReturn("p1")
    \/ Return("p1")

SpecCancel == Init /\ [][NextCancel]_vars /\ WF_vars(NextCancel)

\* getBackoff as a pure function: any duration of the range, any draw.
InitBackoff ==
    /\ InitSession
    /\ bd \in MinDur .. MaxDur
    /\ bnext = <<>>

ApplyBackoff ==
    /\ bnext = <<>>
    /\ \E k \in Draws : bnext' = <<getBackoff(bd, k)>>
    /\ UNCHANGED <<client, account, key, nilReauth, pc, call, stack, loc, cancelled,
                   ret, held, gh, bd>>

SpecBackoff == InitBackoff /\ [][ApplyBackoff]_vars

(* -------------------------------- claims ------------------------------ *)

HandleOps == {"createBucket", "listBuckets", "deleteBucket", "getUploadURL",
              "uploadFile", "deleteFileVersion"}

InCall(p) == pc[p] # "idle"

\* An error the classifier marks neither transient nor reauth-worthy.
Permanent(e) == e \in Errs /\ ~transient(e) /\ ~reauth(e)

\* C1: when the first raw call of a handle operation returns an error that is
\* neither transient nor reauth-worthy, the operation makes no other raw call,
\* no raw authorizeAccount call, starts no reauthorization and enters no wait,
\* and what it returns is that error.
C1_PermanentErrorReturnedAtOnce ==
    \A p \in Procs :
        (InCall(p) /\ call[p].op \in HandleOps /\ Permanent(gh[p].firstErr)) =>
            /\ gh[p].rawCalls = 1
            /\ gh[p].authCalls = 0
            /\ gh[p].reauths = 0
            /\ gh[p].waits = <<>>
            /\ pc[p] \in {"reauthq", "check", "done"}
            /\ pc[p] = "done" =>
                  /\ ret[p].err = gh[p].firstErr
                  /\ ret[p].h = NoHandle
                  /\ ret[p].buckets = <<>>

C1_Witness ==
    \E p \in Procs :
        /\ pc[p] = "done"
        /\ call[p].op = "uploadFile"
        /\ Permanent(gh[p].firstErr)
        /\ ret[p].err = gh[p].firstErr

\* C2: once the ctx is cancelled while the operation is blocked in a backoff
\* wait (its own, or that of a reauthorization inside it), the operation only
\* unwinds: it makes no further raw call and returns ctx.Err() with no result;
\* the error that prompted the wait is gone.
C2_CancelDuringWaitReturnsCtxErr ==
    \A p \in Procs :
        gh[p].wokenByCtx =>
            /\ cancelled[p]
            /\ pc[p] \in {"cancelRet", "check", "done"}
            /\ pc[p] = "check" =>
                  /\ Len(stack[p]) = 1
                  /\ ~Top(p).final
                  /\ Top(p).err = CtxErr
            /\ pc[p] = "done" =>
                  /\ ret[p].err = CtxErr
                  /\ ret[p].h = NoHandle
                  /\ ret[p].buckets = <<>>

\* The ctx was cancelled during the wait of a nested reauthorization, and the
\* operation has returned.
C2_Witness ==
    \E p \in Procs :
        /\ pc[p] = "done"
        /\ gh[p].wokenByCtx
        /\ gh[p].waits # <<>>
        /\ gh[p].waits[Len(gh[p].waits)].depth = 2
        /\ transient(gh[p].lastRaw)
        /\ ret[p].err = CtxErr

\* C3: when the first raw call of a handle operation fails with a reauth-worthy
\* error (transient or not), the raw authorizeAccount of the reauthorization
\* succeeds and the repeated raw call succeeds, the operation starts one
\* reauthorization, makes one raw authorizeAccount call and two raw calls of
\* the operation, enters no wait, and returns nil.
C3_OneReauthOneRetry ==
    \A p \in Procs :
        (/\ InCall(p)
         /\ call[p].op \in HandleOps
         /\ gh[p].firstErr \in Errs
         /\ reauth(gh[p].firstErr)
         /\ gh[p].opFails = 1
         /\ gh[p].authFails = 0) =>
            /\ gh[p].rawCalls <= 2
            /\ gh[p].authCalls <= 1
            /\ gh[p].reauths <= 1
            /\ gh[p].waits = <<>>
            /\ pc[p] = "done" =>
                  /\ gh[p].rawCalls = 2
                  /\ gh[p].authCalls = 1
                  /\ gh[p].reauths = 1
                  /\ ret[p].err = Nil

\* uploadFile failed once with an error that is reauth-worthy and transient,
\* was reauthorized, and has returned.
C3_Witness ==
    \E p \in Procs :
        /\ pc[p] = "done"
        /\ call[p].op = "uploadFile"
        /\ gh[p].firstErr = "authTrans"
        /\ gh[p].opFails = 1
        /\ gh[p].authCalls = 1
        /\ gh[p].rawCalls = 2
        /\ ret[p].err = Nil

Calls(p) == gh[p].rawCalls + gh[p].authCalls
Fails(p) == gh[p].opFails + gh[p].authFails

\* The waits of an operation, in order, never get shorter.
NonDecreasing(w) == \A i \in 1 .. Len(w) - 1 : w[i].d <= w[i + 1].d

\* C4: while every error of the raw operation is transient (not reauth-worthy,
\* no backoff override) and the ctx is not cancelled, each failure is followed
\* by one wait and one more invocation, no wait is shorter than the one before
\* it, and the loop returns nil after N + 1 invocations and N waits, where N is
\* the number of failures.
C4_TransientRetriesThenSuccess ==
    \A p \in Procs :
        (InCall(p) /\ gh[p].plain /\ ~cancelled[p]) =>
            /\ gh[p].reauths = 0
            /\ Len(gh[p].waits) <= Fails(p)
            /\ Calls(p) <= Fails(p) + 1
            /\ NonDecreasing(gh[p].waits)
            /\ pc[p] = "done" =>
                  /\ ret[p].err = Nil
                  /\ Calls(p) = Fails(p) + 1
                  /\ Len(gh[p].waits) = Fails(p)

\* The operation failed MaxRetries times, its waits went past the 15 s
\* ceiling, and it has returned.
C4_Witness ==
    \E p \in Procs :
        /\ pc[p] = "done"
        /\ call[p].op = "createBucket"
        /\ ~cancelled[p]
        /\ gh[p].opFails = MaxRetries
        /\ Len(gh[p].waits) = MaxRetries
        /\ gh[p].waits[MaxRetries - 1].d > Ceiling
        /\ ret[p].err = Nil

\* C5: withBackoff returns only after an attempt that reported final, or whose
\* error is not transient, or out of the select's ctx.Done() case with the ctx
\* cancelled; the number of attempts made so far plays no part.
C5_NoRetryCeiling ==
    [][\A p \in Procs :
          Len(stack'[p]) < Len(stack[p]) =>
              \/ pc[p] = "check" /\ (Top(p).final \/ ~transient(Top(p).err))
              \/ pc[p] = "cancelRet" /\ cancelled[p]]_vars

\* An operation has returned nil after as many failures and waits as the raw
\* client may cause.
C5_Witness ==
    \E p \in Procs :
        /\ pc[p] = "done"
        /\ Len(gh[p].waits) = MaxFails
        /\ Fails(p) = MaxFails
        /\ ret[p].err = Nil

\* C6: a non-nil error returned by an operation is the error of the latest raw
\* call made in it (of the operation, or of a reauthorization's
\* authorizeAccount) or ctx.Err(), the latter only with the ctx cancelled; so a
\* failed reauthorization's error is returned, not the error that started it.
C6_ErrorsNotReplaced ==
    \A p \in Procs :
        (pc[p] = "done" /\ ret[p].err # Nil) =>
            /\ ret[p].err \in {gh[p].lastRaw, CtxErr}
            /\ ret[p].err = CtxErr => cancelled[p]

\* An operation whose raw call failed with a reauth-worthy error has returned
\* the different error its reauthorization failed with.
C6_Witness ==
    \E p \in Procs :
        /\ pc[p] = "done"
        /\ call[p].op \in HandleOps
        /\ gh[p].rawCalls = 1
        /\ gh[p].firstErr = "auth"
        /\ gh[p].authFails >= 1
        /\ gh[p].lastRaw = "perm"
        /\ ret[p].err = "perm"

\* The (account, key) stored in the Session of the call of p.
Stored(p) == <<account[call[p].ri], key[call[p].ri]>>

\* C7: authorizeAccount(account, key) stores the account and the key only after
\* a raw authorizeAccount call with them has succeeded, so a call that ends in
\* an error (after any retries, or cancelled) leaves the stored pair as it was
\* and a call that returns nil has stored its arguments; a reauthorization
\* within a handle operation leaves the stored pair as it was before the
\* operation, whether the reauthorization succeeds or fails (one caller).
C7_StoredOnlyAfterSuccess ==
    \A p \in Procs :
        InCall(p) =>
            /\ call[p].op = "authorizeAccount" =>
                  /\ Stored(p) # call[p].old =>
                        /\ gh[p].lastRaw = Nil
                        /\ gh[p].authCalls > gh[p].authFails
                        /\ pc[p] \in {"writeKey", "check", "done"}
                        /\ account[call[p].ri] = call[p].args[1]
                        /\ pc[p] # "writeKey" => Stored(p) = call[p].args
                  /\ pc[p] = "done" /\ ret[p].err # Nil => Stored(p) = call[p].old
                  /\ pc[p] = "done" /\ ret[p].err = Nil =>
                        /\ Stored(p) = call[p].args
                        /\ gh[p].lastRaw = Nil
            /\ call[p].op \in HandleOps => Stored(p) = call[p].old

\* authorizeAccount, called with another pair than the stored one, has failed
\* after a wait and a retry.
C7_Witness ==
    \E p \in Procs :
        /\ pc[p] = "done"
        /\ call[p].op = "authorizeAccount"
        /\ call[p].old \in Pairs
        /\ call[p].args # call[p].old
        /\ ret[p].err # Nil
        /\ gh[p].authCalls >= 2
        /\ Len(gh[p].waits) >= 1
        /\ Stored(p) = call[p].old

\* The pairs that are passed together to authorizeAccount, and the pair of a
\* Session that was never authorized.
WholePairs == Pairs \cup {<<"", "">>}

\* A caller is between r.account = account and r.key = key on Session r.
MidWrite(r) == \E p \in Procs : pc[p] = "writeKey" /\ call[p].ri = r

\* C8: with callers interleaving on one Session, the stored (account, key) is,
\* whenever no caller is between its two assignments, a pair that one
\* authorizeAccount call was given, never the account of one call with the key
\* of another; and no reauthorization calls the raw authorizeAccount with such
\* a mixed pair.
C8_PairReplacedTogether ==
    /\ \A r \in Roots : ~MidWrite(r) => <<account[r], key[r]>> \in WholePairs
    /\ \A p \in Procs :
          pc[p] \in {"rawAuth", "writeAccount", "writeKey"} =>
              <<Top(p).account, Top(p).key>> \in WholePairs

\* The handles a caller has: the one it keeps, and those in the results and the
\* result variables of its call.
Handles(p) ==
    ({held[p], ret[p].h, loc[p].h}
        \cup {ret[p].buckets[i] : i \in 1 .. Len(ret[p].buckets)}
        \cup {loc[p].buckets[i] : i \in 1 .. Len(loc[p].buckets)})
    \ {NoHandle}

\* The Session whose raw root the raw object of a handle descends from.
Origin(h) ==
    CASE h.kind = "bucket" -> h.b2bucket.root
      [] h.kind = "url"    -> h.b2url.bucket.root
      [] h.kind = "file"   -> h.b2file.url.bucket.root

\* C9: every Bucket, UploadTarget and File handle references the Session its
\* chain of creation started from: a bucket that of the root that created or
\* listed it, an upload target that of its bucket, a file that of its upload
\* target, which it has as its owner; the handle a call returns references the
\* Session of the handle it was called on; and a handle has no account or key
\* field of its own.
C9_HandlesShareSession ==
    \A p \in Procs :
        /\ \A h \in Handles(p) :
              /\ h.kind \in {"bucket", "url", "file"}
              /\ h.ri \in Roots
              /\ h.ri = Origin(h)
              /\ h.ri = client
              /\ h.kind = "file" =>
                    /\ h.url.kind = "url"
                    /\ h.url.b2url = h.b2file.url
                    /\ h.url.ri = h.ri
              /\ DOMAIN h \subseteq {"kind", "b2bucket", "b2url", "b2file", "url", "ri"}
        /\ (InCall(p) /\ loc[p].h # NoHandle) =>
              /\ loc[p].h.ri = call[p].recv.ri
              /\ call[p].op = "uploadFile" => loc[p].h.url = call[p].recv
        /\ InCall(p) => \A i \in 1 .. Len(loc[p].buckets) :
                            loc[p].buckets[i].ri = call[p].recv.ri

\* uploadFile has returned a file after a wait and a reauthorization.
C9_Witness ==
    \E p \in Procs :
        /\ pc[p] = "done"
        /\ call[p].op = "uploadFile"
        /\ ret[p].err = Nil
        /\ ret[p].h.kind = "file"
        /\ ret[p].h.url = call[p].recv
        /\ ret[p].h.ri = client
        /\ gh[p].reauths >= 1
        /\ Len(gh[p].waits) >= 1

C11_CancellationPreferred ==
    [][\A p \in Procs :
          (pc[p] = "select" /\ Ready(p) = {"ctx", "timer"}) =>
              pc'[p] = "cancelRet"]_vars

\* The wait w[i] is the first of its retry loop: of the operation's loop when
\* no wait of that loop came before, of a reauthorization's loop when the wait
\* before it, if any, was one of the operation's loop.
FirstOfLoop(w, i) ==
    IF w[i].depth = 1
    THEN \A j \in 1 .. (i - 1) : w[j].depth # 1
    ELSE i = 1 \/ w[i - 1].depth = 1

\* The waits getBackoff can return for the running backoff b.
NextOf(b) == {getBackoff(b, k) : k \in Draws}

\* The waits of the operation's own loop among w, in order.
OwnWaits(w) == SelectSeq(w, LAMBDA x : x.depth = 1)

\* C12: the retry loop of every operation, and of every reauthorization nested
\* in one, starts with a running backoff of 500 ms, so its first wait without
\* an override is getBackoff(500 ms); the waits of a nested reauthorization
\* leave the running backoff of the enclosing loop as it was.
C12_FreshBackoffPerLoop ==
    \A p \in Procs :
        LET w == gh[p].waits IN
        /\ \A i \in 1 .. Len(w) :
              FirstOfLoop(w, i) =>
                  /\ w[i].from = InitialBackoff
                  /\ ~backoff(w[i].e)[2] => w[i].d \in NextOf(InitialBackoff)
        /\ stack[p] # <<>> =>
              stack[p][1].backoff =
                  IF OwnWaits(w) = <<>> THEN InitialBackoff
                  ELSE OwnWaits(w)[Len(OwnWaits(w))].d
        /\ (Len(stack[p]) = 2 /\ (w = <<>> \/ w[Len(w)].depth = 1)) =>
              stack[p][2].backoff = InitialBackoff

\* A reauthorization has waited 2 s on an override, and the operation's loop,
\* in its first wait after it, has waited getBackoff(500 ms).
C12_Witness ==
    \E p \in Procs :
        LET w == gh[p].waits IN
        /\ Len(w) = 2
        /\ w[1].depth = 2
        /\ w[1].d = 2000
        /\ w[2].depth = 1
        /\ w[2].e = "trans"
        /\ w[2].from = InitialBackoff
        /\ w[2].d \in NextOf(InitialBackoff)

\* The attempts the operation's own retry loop has started: one, and one more
\* after each of its waits.
Attempts(p) == Len(OwnWaits(gh[p].waits)) + 1

\* C13: in one attempt withReauth reauthorizes at most once and calls the raw
\* operation at most twice, the second time only after a reauthorization; the
\* error of the second call goes to the retry loop as it is, reauth-worthy or
\* not, so an operation reauthorizes again only in a later attempt, after a
\* wait on a transient error.
C13_OneReauthPerAttempt ==
    \A p \in Procs :
        (InCall(p) /\ call[p].op \in HandleOps) =>
            /\ gh[p].reauths <= Attempts(p)
            /\ gh[p].rawCalls <= Attempts(p) + gh[p].reauths
            /\ gh[p].rawCalls <= 2 * Attempts(p)
            /\ \A i \in 1 .. Len(gh[p].waits) : transient(gh[p].waits[i].e)
            /\ (pc[p] = "done" /\ gh[p].waits = <<>>) =>
                  /\ gh[p].reauths <= 1
                  /\ gh[p].rawCalls <= 2

\* The raw call made after a reauthorization that succeeded has failed with a
\* reauth-worthy error that is not transient, and the operation has returned
\* it after two raw calls and one reauthorization.
C13_Witness ==
    \E p \in Procs :
        /\ pc[p] = "done"
        /\ call[p].op \in HandleOps
        /\ ret[p].err = "auth"
        /\ gh[p].firstErr = "auth"
        /\ gh[p].lastRaw = "auth"
        /\ gh[p].rawCalls = 2
        /\ gh[p].reauths = 1
        /\ gh[p].authCalls = 1
        /\ gh[p].authFails = 0

\* The wait of the same retry loop that came before w[i], which is not the
\* first of its loop.
PrevInLoop(w, i) ==
    IF w[i].depth = 1
    THEN w[CHOOSE j \in 1 .. (i - 1) :
               /\ w[j].depth = 1
               /\ \A m \in (j + 1) .. (i - 1) : w[m].depth # 1]
    ELSE w[i - 1]

\* C14: a wait on an error the classifier has an override for lasts exactly
\* the override, any other wait lasts getBackoff of the running backoff; and
\* either way the wait becomes the running backoff, which the next wait of the
\* loop starts from, so after an override the next wait without one is
\* getBackoff(override).
C14_OverrideBecomesBaseline ==
    \A p \in Procs :
        LET w == gh[p].waits IN
        /\ \A i \in 1 .. Len(w) :
              /\ backoff(w[i].e)[2] => w[i].d = backoff(w[i].e)[1]
              /\ ~backoff(w[i].e)[2] => w[i].d \in NextOf(w[i].from)
              /\ ~FirstOfLoop(w, i) => w[i].from = PrevInLoop(w, i).d
        /\ pc[p] \in {"select", "blocked", "cancelRet"} =>
              Top(p).backoff = w[Len(w)].d

\* A loop has waited the override of 2 s and then, on an error without an
\* override, getBackoff(2 s), which getBackoff of the backoff held before the
\* override would not have given.
C14_Witness ==
    \E p \in Procs :
        LET w == gh[p].waits IN
        /\ Len(w) = 2
        /\ w[1].depth = 1 /\ w[2].depth = 1
        /\ w[1].e = "retryAfter"
        /\ w[1].from = InitialBackoff
        /\ w[1].d = 2000
        /\ w[2].e = "trans"
        /\ w[2].from = 2000
        /\ w[2].d \in NextOf(2000)
        /\ w[2].d \notin NextOf(InitialBackoff)
        /\ pc[p] = "blocked"

\* The waits of the reauthorizations' loops among w, in order.
NestedWaits(w) == SelectSeq(w, LAMBDA x : x.depth = 2)

\* The raw authorizeAccount calls of an operation that succeeded.
AuthSuccesses(p) == gh[p].authCalls - gh[p].authFails

\* C15: a reauthorization runs the retry loop: its raw authorizeAccount is
\* called again only after a wait on a transient error of it; withReauth calls
\* the raw operation a second time only after a raw authorizeAccount has
\* succeeded; and when the reauthorization fails, on a non-transient error or
\* on cancellation, the raw operation is not called again in that attempt and
\* the reauthorization's error is what the attempt returns.
C15_ReauthRetriedThenOpAgain ==
    \A p \in Procs :
        (InCall(p) /\ call[p].op \in HandleOps) =>
            LET w == gh[p].waits IN
            /\ gh[p].authCalls <= gh[p].reauths + Len(NestedWaits(w))
            /\ Len(NestedWaits(w)) <= gh[p].authFails
            /\ AuthSuccesses(p) <= gh[p].reauths
            /\ gh[p].rawCalls <= Attempts(p) + AuthSuccesses(p)
            /\ pc[p] = "g2" =>
                  /\ gh[p].lastRaw = Nil
                  /\ AuthSuccesses(p) >= 1
                  /\ Len(stack[p]) = 1
            /\ (Len(stack[p]) = 2 /\ pc[p] \in {"select", "blocked", "cancelRet"}) =>
                  /\ transient(Top(p).err)
                  /\ Top(p).err = gh[p].lastRaw
            /\ (pc[p] = "done" /\ OwnWaits(w) = <<>> /\ gh[p].reauths = 1
                    /\ AuthSuccesses(p) = 0) =>
                  /\ gh[p].rawCalls = 1
                  /\ ret[p].err # Nil
                  /\ ret[p].err \in {gh[p].lastRaw, CtxErr}
                  /\ ret[p].err = CtxErr => cancelled[p]

\* After a reauth-worthy error the raw authorizeAccount failed with a transient
\* error, was called again after a wait and succeeded, and the raw operation,
\* called a second time, succeeded.
C15_Witness ==
    \E p \in Procs :
        /\ pc[p] = "done"
        /\ call[p].op \in HandleOps
        /\ ret[p].err = Nil
        /\ gh[p].firstErr = "auth"
        /\ gh[p].reauths = 1
        /\ gh[p].authCalls = 2
        /\ gh[p].authFails = 1
        /\ Len(NestedWaits(gh[p].waits)) = 1
        /\ gh[p].rawCalls = 2

\* C16: an operation starts a reauthorization only on a result of its raw
\* operation that the classifier marks reauth-worthy, so it starts no more of
\* them than it got such results and, with none, calls the raw
\* authorizeAccount not at all; an error of the raw authorizeAccount starts
\* none, in authorizeAccount or within a reauthorization, so a caller is in
\* at most two retry loops, the operation's and a reauthorization's.
C16_ReauthOnlyOnOperationError ==
    \A p \in Procs :
        /\ Len(stack[p]) <= 2
        /\ gh[p].reauths <= gh[p].reauthOp
        /\ gh[p].reauthOp = 0 => gh[p].authCalls = 0 \/ call[p].op = "authorizeAccount"
        /\ pc[p] \in {"readAccount", "readKey"} =>
              /\ reauth(loc[p].err)
              /\ Len(stack[p]) = 1
              /\ call[p].op \in HandleOps
        /\ Len(stack[p]) = 2 =>
              /\ call[p].op \in HandleOps
              /\ stack[p][1].fn = "op"
              /\ stack[p][2].fn = "auth"
              /\ reauth(loc[p].err)
        /\ call[p].op = "authorizeAccount" =>
              /\ gh[p].reauths = 0
              /\ gh[p].rawCalls = 0
              /\ Len(stack[p]) <= 1

\* createBucket has failed twice with a transient error that is not
\* reauth-worthy, then succeeded, without a raw authorizeAccount call.
C16_Witness ==
    \E p \in Procs :
        /\ pc[p] = "done"
        /\ call[p].op = "createBucket"
        /\ ret[p].err = Nil
        /\ gh[p].rawCalls = 3
        /\ gh[p].opFails = 2
        /\ gh[p].reauthOp = 0
        /\ Len(gh[p].waits) = 2
        /\ \A i \in 1 .. 2 : transient(gh[p].waits[i].e) /\ ~reauth(gh[p].waits[i].e)
        /\ gh[p].authCalls = 0
        /\ gh[p].reauths = 0

\* The operations that return a new handle.
CreationOps == {"createBucket", "getUploadURL", "uploadFile"}

\* The kind of handle an operation returns.
KindOf(op) ==
    CASE op = "createBucket" -> "bucket"
      [] op = "getUploadURL" -> "url"
      [] op = "uploadFile"   -> "file"

\* C17: createBucket, getUploadURL and uploadFile return a handle exactly when
\* they return a nil error, the handle then being the one built from the
\* latest raw result; with a non-nil error they return no handle, even when
\* an attempt of the call had built one.
C17_HandleXorError ==
    \A p \in Procs :
        (pc[p] = "done" /\ call[p].op \in CreationOps) =>
            /\ ret[p].h # NoHandle <=> ret[p].err = Nil
            /\ ret[p].err = Nil =>
                  /\ ret[p].h = loc[p].h
                  /\ ret[p].h.kind = KindOf(call[p].op)
                  /\ gh[p].lastRaw = Nil
            /\ ret[p].buckets = <<>>

\* An operation has returned an error and no handle after its raw call had
\* succeeded and a handle had been built.
C17_Witness ==
    \E p \in Procs :
        /\ pc[p] = "done"
        /\ call[p].op \in CreationOps
        /\ ret[p].err # Nil
        /\ ret[p].h = NoHandle
        /\ loc[p].h # NoHandle
        /\ gh[p].firstErr = Nil

\* The raw calls of the operation that succeeded.
OpSuccesses(p) == gh[p].rawCalls - gh[p].opFails

\* What an operation returns for the raw value v of its raw call.
Wrapped(op, recv, v) ==
    gSuccess(op, recv, NoLoc, v)

\* C18: with a classifier that does not mark nil reauth-worthy, an operation
\* whose raw call has succeeded makes no other raw call, reauthorization or
\* wait: it is on its way out of withReauth and withBackoff, and returns nil
\* with the wrapped value of that one raw call; listBuckets returns one handle
\* per raw bucket of that call, in order, and nothing else.
C18_SuccessIsFinal ==
    \A p \in Procs :
        (~reauth(Nil) /\ InCall(p) /\ call[p].op \in HandleOps) =>
            /\ OpSuccesses(p) <= 1
            /\ OpSuccesses(p) = 1 =>
                  /\ pc[p] \in {"reauthq", "check", "done"}
                  /\ gh[p].lastRaw = Nil
                  /\ loc[p].err = Nil
                  /\ Len(stack[p]) = (IF pc[p] = "done" THEN 0 ELSE 1)
                  /\ pc[p] = "check" => Top(p).final /\ Top(p).err = Nil
                  /\ loc[p].h = Wrapped(call[p].op, call[p].recv, gh[p].got).h
                  /\ loc[p].buckets =
                        Wrapped(call[p].op, call[p].recv, gh[p].got).buckets
                  /\ pc[p] = "done" =>
                        /\ ret[p].err = Nil
                        /\ ret[p].h = loc[p].h
                        /\ ret[p].buckets = loc[p].buckets
                        /\ call[p].op = "listBuckets" =>
                              /\ Len(ret[p].buckets) = Len(gh[p].got)
                              /\ \A i \in 1 .. Len(gh[p].got) :
                                    ret[p].buckets[i] =
                                        beBucket(gh[p].got[i], call[p].recv.ri)
            /\ OpSuccesses(p) = 0 => loc[p].h = NoHandle /\ loc[p].buckets = <<>>

\* listBuckets has returned the two buckets of its third raw call, the first
\* that succeeded, after a reauthorization and a wait.
C18_Witness ==
    \E p \in Procs :
        /\ pc[p] = "done"
        /\ call[p].op = "listBuckets"
        /\ ret[p].err = Nil
        /\ gh[p].rawCalls = 3
        /\ gh[p].opFails = 2
        /\ gh[p].reauths >= 1
        /\ Len(gh[p].waits) >= 1
        /\ Len(gh[p].got) = 2
        /\ Len(ret[p].buckets) = 2

\* What a caller whose ctx is cancelled has done since: raw calls of the
\* operation, raw authorizeAccount calls, waits whose timer case was taken.
SinceCancel(p) ==
    [rawCalls  |-> gh[p].rawCalls - gh[p].atCancel.rawCalls,
     authCalls |-> gh[p].authCalls - gh[p].atCancel.authCalls,
     waited    |-> gh[p].waited - gh[p].atCancel.waited]

CancelledInCall(p) == InCall(p) /\ call[p].op \in HandleOps /\ cancelled[p]

\* C19: with every wait positive and every raw call returning, an operation
\* whose ctx is cancelled makes from then on at most two raw calls of the
\* operation and at most one raw authorizeAccount call, takes the timer case of
\* no wait, and returns.
C19_BoundedAfterCancel ==
    /\ [](\A p \in Procs :
            CancelledInCall(p) =>
                /\ SinceCancel(p).rawCalls <= 2
                /\ SinceCancel(p).authCalls <= 1
                /\ SinceCancel(p).waited = 0
                /\ pc[p] # "blocked")
    /\ \A p \in Procs : CancelledInCall(p) ~> (pc[p] = "done")

\* An operation has returned ctx.Err() after two raw calls and one raw
\* authorizeAccount call, all made after its ctx was cancelled.
C19_Witness ==
    \E p \in Procs :
        /\ pc[p] = "done"
        /\ CancelledInCall(p)
        /\ ret[p].err = CtxErr
        /\ SinceCancel(p).rawCalls = 2
        /\ SinceCancel(p).authCalls = 1
        /\ gh[p].waits # <<>>

\* Every raw call of the operation so far was made with its ctx cancelled.
CancelledThroughout(p) ==
    /\ cancelled[p]
    /\ SinceCancel(p).rawCalls = gh[p].rawCalls
    /\ SinceCancel(p).authCalls = gh[p].authCalls

\* C20: the ctx is looked at only in the select of a wait: an operation called
\* with a cancelled ctx makes its raw call at least once, and an operation
\* returns ctx.Err() only when its latest raw call (of the operation, or of a
\* reauthorization's authorizeAccount) failed with a transient error; when
\* its latest raw call succeeded it returns nil, and when it failed with an
\* error that is not transient it returns that error, cancelled or not.
C20_CancelSeenOnlyInWait ==
    \A p \in Procs :
        (pc[p] = "done") =>
            /\ call[p].op \in HandleOps => gh[p].rawCalls >= 1
            /\ call[p].op = "authorizeAccount" => gh[p].authCalls >= 1
            /\ ret[p].err = CtxErr =>
                  /\ cancelled[p]
                  /\ gh[p].lastRaw \in Errs
                  /\ transient(gh[p].lastRaw)
                  /\ gh[p].waits # <<>>
            /\ gh[p].lastRaw = Nil => ret[p].err = Nil
            /\ (gh[p].lastRaw \in Errs /\ ~transient(gh[p].lastRaw)) =>
                  ret[p].err = gh[p].lastRaw

\* An operation called with a cancelled ctx has reauthorized after a
\* reauth-worthy error and returned nil, every raw call made with the ctx
\* cancelled.
C20_Witness ==
    \E p \in Procs :
        /\ pc[p] = "done"
        /\ call[p].op \in HandleOps
        /\ CancelledThroughout(p)
        /\ gh[p].firstErr = "auth"
        /\ gh[p].rawCalls = 2
        /\ gh[p].authCalls = 1
        /\ ret[p].err = Nil

\* The statement as first made, for an operation whose raw calls were all made
\* with the ctx cancelled: it has made a raw call, and when one of them
\* succeeded or failed with an error that is not transient (here the first or
\* the latest), the operation does not return ctx.Err().
C20_AsStated ==
    \A p \in Procs :
        (pc[p] = "done" /\ CancelledThroughout(p)) =>
            /\ gh[p].rawCalls + gh[p].authCalls >= 1
            /\ \A r \in {gh[p].firstErr, gh[p].lastRaw} :
                  (r = Nil \/ (r \in Errs /\ ~transient(r))) => ret[p].err # CtxErr

=============================================================================
